---- MODULE Spec2Model ----
(***************************************************************************)
(* LectureAI uploader: the request handlers of the three server variants   *)
(* kept in the repository, as state machines.                              *)
(*                                                                         *)
(*   variant "A"  src/server.js lines 1-202   (Stripe + Supabase + B2)     *)
(*   variant "B"  src/server.js lines 205-332 (Stripe, upload placeholder) *)
(*   variant "C"  src/unnamed/part_000        (Stripe, upload placeholder) *)
(*                                                                         *)
(* A handler runs without interruption up to its next `await`; each await  *)
(* is a point where other requests' handlers (and the remote service) may  *)
(* run.  One action below is one such uninterrupted stretch of a handler,  *)
(* or the remote service settling the call the handler is waiting for.     *)
(***************************************************************************)
EXTENDS Naturals, Sequences, FiniteSets, Bags

VARIABLES
  variant,   \* which server file is deployed
  wh,        \* webhook requests: slot -> request record
  store,     \* table user_subscriptions: a bag of rows
  co,        \* checkout requests: slot -> request record
  up,        \* upload requests: slot -> request record
  tmpFiles   \* files multer has written under uploads/ (by request slot)

vars == <<variant, wh, store, co, up, tmpFiles>>

\* Number of request slots per route (requests that may overlap in time).
MaxReq == 2

Reqs == 1..MaxReq

Variants == {"A", "B", "C"}

\* JavaScript's undefined and null.
Undefined == "undefined"
Null == "null"

\* JavaScript truthiness of the values used here (strings, undefined, null).
Falsy(v) == v \in {Undefined, Null, ""}

\* a || b
OrElse(a, b) == IF Falsy(a) THEN b ELSE a

(***************************************************************************)
(* Stripe webhook                                                          *)
(***************************************************************************)

\* The signature Stripe computes over the raw body with STRIPE_WEBHOOK_SECRET.
GoodSig == "t=1,v1=hmac(secret,body)"

\* stripe-signature header values: correct, forged, header missing.
Signatures == {GoodSig, "t=1,v1=forged", Undefined}

CheckoutCompleted == "checkout.session.completed"

EventTypes == {CheckoutCompleted, "invoice.paid"}

\* Stripe stores no empty metadata value (an empty value unsets the key), so a
\* key is either absent or a non-empty string.
Metadatas == [user_id : {Undefined, "u1", "u2"}, plan_type : {Undefined, "single"}]

\* A delivery: the signature header and the (parsed view of the) raw body.
Deliveries ==
  [sig : Signatures, type : EventTypes, metadata : Metadatas,
   customer : {"cus_1"}, email : {Undefined}]

WhIdle ==
  [pc |-> "idle", sig |-> Undefined, body |-> <<>>, event |-> <<>>,
   upserts |-> <<>>, upsertResult |-> "none", status |-> 0, reply |-> "none"]

\* stripe.webhooks.constructEvent returns the event iff the signature verifies;
\* otherwise it throws.
SkipVerification(d) == TRUE

SignatureVerifies(d) == d.sig = GoodSig

\* switch (event.type) / if (event.type === "checkout.session.completed")
AnyEventType(type) == TRUE

IsCheckoutCompleted(type) == type = CheckoutCompleted

\* The row the handler passes to upsert.
UpsertRowPending(session) ==
  [user_id |-> OrElse(session.metadata.user_id, Null),
   email |-> session.email,
   plan_type |-> OrElse(session.metadata.plan_type, "unknown"),
   stripe_customer_id |-> session.customer,
   subscription_status |-> "pending"]

UpsertRow(session) ==
  [user_id |-> OrElse(session.metadata.user_id, Null),
   email |-> session.email,
   plan_type |-> OrElse(session.metadata.plan_type, "unknown"),
   stripe_customer_id |-> session.customer,
   subscription_status |-> "active"]

\* The column the table user_subscriptions is keyed by (its primary key).  The
\* table definition is not among the source files; the data model keys the
\* subscription record by the user identifier.
PrimaryKey(row) == row.user_id

\* Rows of the table with a given user_id, as a bag.
RowsOf(bag, u) == [x \in {y \in DOMAIN bag : y.user_id = u} |-> bag[x]]

\* Rows of the table whose key differs from k, as a bag.
RowsNotKeyed(bag, k) == [x \in {y \in DOMAIN bag : PrimaryKey(y) # k} |-> bag[x]]

\* .insert(row): a new row every time.
Insert(bag, row) == bag (+) SetToBag({row})

\* .upsert(row) with no onConflict option: the conflict is resolved on the
\* table's primary key: the row with that key is replaced, or the row is added
\* when there is none.  One statement, atomic in the store.
Upsert(bag, row) == RowsNotKeyed(bag, PrimaryKey(row)) (+) SetToBag({row})

\* A primary-key column is NOT NULL: the store refuses a row whose key is null.
StoreAccepts(row) == PrimaryKey(row) # Null

\* Variant A, POST /stripe/webhook: constructEvent throws.
StripeWebhookRejected(r) ==
  /\ variant = "A"
  /\ wh[r].pc = "idle"
  /\ \E d \in Deliveries :
       /\ ~SignatureVerifies(d)
       /\ wh' = [wh EXCEPT ![r] =
                   [@ EXCEPT !.pc = "done", !.sig = d.sig, !.body = <<d>>,
                             !.status = 400, !.reply = "Webhook Error"]]
  /\ UNCHANGED <<variant, store, co, up, tmpFiles>>

\* Variant A: verified, case "checkout.session.completed": the upsert is sent
\* and the handler waits for it.
StripeWebhookCheckoutCompleted(r) ==
  /\ variant = "A"
  /\ wh[r].pc = "idle"
  /\ \E d \in Deliveries :
       /\ SignatureVerifies(d)
       /\ IsCheckoutCompleted(d.type)
       /\ wh' = [wh EXCEPT ![r] =
                   [@ EXCEPT !.pc = "awaitUpsert", !.sig = d.sig, !.body = <<d>>,
                             !.event = <<d>>,
                             !.upserts = <<UpsertRow(d)>>]]
  /\ UNCHANGED <<variant, store, co, up, tmpFiles>>

\* Variant A: verified, default branch of the switch.
StripeWebhookDefault(r) ==
  /\ variant = "A"
  /\ wh[r].pc = "idle"
  /\ \E d \in Deliveries :
       /\ SignatureVerifies(d)
       /\ ~IsCheckoutCompleted(d.type)
       /\ wh' = [wh EXCEPT ![r] =
                   [@ EXCEPT !.pc = "done", !.sig = d.sig, !.body = <<d>>,
                             !.event = <<d>>,
                             !.status = 200, !.reply = "received"]]
  /\ UNCHANGED <<variant, store, co, up, tmpFiles>>

\* The store executes the upsert and answers {error: null}.
SupabaseUpsertOk(r) ==
  /\ wh[r].pc = "awaitUpsert"
  /\ StoreAccepts(wh[r].upserts[1])
  /\ store' = Upsert(store, wh[r].upserts[1])
  /\ wh' = [wh EXCEPT ![r] = [@ EXCEPT !.pc = "upsertSettled", !.upsertResult = "ok"]]
  /\ UNCHANGED <<variant, co, up, tmpFiles>>

\* The store refuses the statement; the client resolves to {error: {...}}.
SupabaseUpsertError(r) ==
  /\ wh[r].pc = "awaitUpsert"
  /\ wh' = [wh EXCEPT ![r] = [@ EXCEPT !.pc = "upsertSettled", !.upsertResult = "error"]]
  /\ UNCHANGED <<variant, store, co, up, tmpFiles>>

\* The awaited promise rejects (the request never reached the store).
SupabaseUpsertThrows(r) ==
  /\ wh[r].pc = "awaitUpsert"
  /\ wh' = [wh EXCEPT ![r] = [@ EXCEPT !.pc = "upsertSettled", !.upsertResult = "throws"]]
  /\ UNCHANGED <<variant, store, co, up, tmpFiles>>

\* Variant A after the await: the value of the await is not inspected; only a
\* rejection reaches the catch block.
StripeWebhookRespond(r) ==
  /\ wh[r].pc = "upsertSettled"
  /\ wh' = [wh EXCEPT ![r] =
              IF wh[r].upsertResult = "throws"
              THEN [@ EXCEPT !.pc = "done", !.status = 500,
                             !.reply = "Webhook handler failed"]
              ELSE [@ EXCEPT !.pc = "done", !.status = 200, !.reply = "received"]]
  /\ UNCHANGED <<variant, store, co, up, tmpFiles>>

\* Variants B and C, POST /webhook: synchronous, no store.
WebhookLegacy(r) ==
  /\ variant \in {"B", "C"}
  /\ wh[r].pc = "idle"
  /\ \E d \in Deliveries :
       wh' = [wh EXCEPT ![r] =
                IF SignatureVerifies(d)
                THEN [@ EXCEPT !.pc = "done", !.sig = d.sig, !.body = <<d>>,
                               !.event = <<d>>, !.status = 200, !.reply = "OK"]
                ELSE [@ EXCEPT !.pc = "done", !.sig = d.sig, !.body = <<d>>,
                               !.status = 400, !.reply = "Webhook Error"]]
  /\ UNCHANGED <<variant, store, co, up, tmpFiles>>

(***************************************************************************)
(* Stripe checkout                                                         *)
(***************************************************************************)

\* process.env.STRIPE_ONE_TIME_PRICE_ID, and the recurring price.
OneTimePriceId == "price_one"
RecurringPriceId == "price_sub"

\* req.body of POST /create-checkout-session.
CheckoutBodies ==
  [priceId : {Undefined, "", RecurringPriceId, OneTimePriceId},
   plan_type : {Undefined, "single", "subscription"},
   user_id : {Undefined, "u1"}]

\* "No metadata key in the call".
NoMetadata == [plan_type |-> Undefined, user_id |-> Undefined]

CoIdle ==
  [pc |-> "idle", body |-> <<>>, calls |-> <<>>, result |-> "none",
   status |-> 0, url |-> Undefined]

\* mode passed to stripe.checkout.sessions.create.
CheckoutMode(v, body) ==
  IF v = "A" THEN "subscription"
  ELSE IF body.priceId = OneTimePriceId THEN "payment" ELSE "subscription"

\* metadata passed to stripe.checkout.sessions.create.
CheckoutMetadata(v, body) ==
  IF v = "A"
  THEN [plan_type |-> OrElse(body.plan_type, "unknown"),
        user_id |-> OrElse(body.user_id, "none")]
  ELSE NoMetadata

\* The argument of stripe.checkout.sessions.create.
CreateParams(v, body) ==
  [mode |-> CheckoutMode(v, body), price |-> body.priceId,
   metadata |-> CheckoutMetadata(v, body)]

\* Stripe creates a session only in the mode of the price: "payment" for a
\* one-time price, "subscription" for a recurring one.
StripeAcceptsParams(params) ==
  params.mode = (IF params.price = OneTimePriceId THEN "payment" ELSE "subscription")

\* The hosted page of the created session.
SessionUrl == "https://checkout.stripe.com/c/pay/cs_1"

\* if (!priceId) return res.status(400)
CreateCheckoutMissingPrice(r) ==
  /\ co[r].pc = "idle"
  /\ \E b \in CheckoutBodies :
       /\ Falsy(b.priceId)
       /\ co' = [co EXCEPT ![r] = [@ EXCEPT !.pc = "done", !.body = <<b>>, !.status = 400]]
  /\ UNCHANGED <<variant, wh, store, up, tmpFiles>>

\* The create call is sent and awaited.
CreateCheckoutSend(r) ==
  /\ co[r].pc = "idle"
  /\ \E b \in CheckoutBodies :
       /\ ~Falsy(b.priceId)
       /\ co' = [co EXCEPT ![r] =
                   [@ EXCEPT !.pc = "awaitStripe", !.body = <<b>>,
                             !.calls = <<CreateParams(variant, b)>>]]
  /\ UNCHANGED <<variant, wh, store, up, tmpFiles>>

\* Stripe creates the session.
StripeSessionCreated(r) ==
  /\ co[r].pc = "awaitStripe"
  /\ StripeAcceptsParams(co[r].calls[1])
  /\ co' = [co EXCEPT ![r] = [@ EXCEPT !.pc = "stripeSettled", !.result = "ok"]]
  /\ UNCHANGED <<variant, wh, store, up, tmpFiles>>

\* The call rejects (invalid parameters, network, Stripe down).
StripeCreateThrows(r) ==
  /\ co[r].pc = "awaitStripe"
  /\ co' = [co EXCEPT ![r] = [@ EXCEPT !.pc = "stripeSettled", !.result = "throws"]]
  /\ UNCHANGED <<variant, wh, store, up, tmpFiles>>

\* res.json({url: session.url}) or the catch block.
CreateCheckoutRespond(r) ==
  /\ co[r].pc = "stripeSettled"
  /\ co' = [co EXCEPT ![r] =
              IF co[r].result = "ok"
              THEN [@ EXCEPT !.pc = "done", !.status = 200, !.url = SessionUrl]
              ELSE [@ EXCEPT !.pc = "done", !.status = 500]]
  /\ UNCHANGED <<variant, wh, store, up, tmpFiles>>

(***************************************************************************)
(* Upload                                                                  *)
(***************************************************************************)

\* The three Backblaze B2 calls of variant A, in the order of the code.
UploadSteps == <<"b2_authorize_account", "b2_get_upload_url", "b2_upload_file">>

\* req.file as multer leaves it: undefined when the form has no "file" part.
UploadFiles == {Undefined, "lecture1.mp3", "notes 2.wav"}

UpIdle ==
  [pc |-> "idle", file |-> Undefined, calls |-> <<>>, failed |-> <<>>,
   status |-> 0, reply |-> "none"]

\* multer({dest: "uploads/"}) writes the part to a temp file before the
\* handler runs.  No handler of any variant removes it afterwards (fs is used
\* for createReadStream only), so tmpFiles changes nowhere else.
MulterStore(files, r, file) == IF file = Undefined THEN files ELSE files \cup {r}

\* Variant A: the handler up to its first await.
UploadStart(r) ==
  /\ variant = "A"
  /\ up[r].pc = "idle"
  /\ \E f \in UploadFiles :
       /\ tmpFiles' = MulterStore(tmpFiles, r, f)
       /\ up' = [up EXCEPT ![r] =
                   IF f = Undefined
                   THEN [@ EXCEPT !.pc = "done", !.status = 400, !.reply = "No file uploaded"]
                   ELSE [@ EXCEPT !.pc = "fetch", !.file = f,
                                  !.calls = <<UploadSteps[1]>>]]
  /\ UNCHANGED <<variant, wh, store, co>>

\* The pending fetch rejects (network error): the catch block answers 500.
FetchRejects(r) ==
  /\ up[r].pc = "fetch"
  /\ up' = [up EXCEPT ![r] =
              [@ EXCEPT !.pc = "done", !.failed = Append(@, Len(up[r].calls)),
                        !.status = 500, !.reply = "Upload failed"]]
  /\ UNCHANGED <<variant, wh, store, co, tmpFiles>>

\* The pending fetch resolves with a 2xx JSON body: the next call is sent, or
\* after the third the success response.
FetchOk(r) ==
  /\ up[r].pc = "fetch"
  /\ up' = [up EXCEPT ![r] =
              IF Len(up[r].calls) < Len(UploadSteps)
              THEN [@ EXCEPT !.calls = Append(@, UploadSteps[Len(up[r].calls) + 1])]
              ELSE [@ EXCEPT !.pc = "done", !.status = 200, !.reply = "Upload successful"]]
  /\ UNCHANGED <<variant, wh, store, co, tmpFiles>>

\* The pending fetch resolves with an error status and B2's JSON error body
\* ({status, code, message}).  fetch does not reject on an HTTP error and the
\* handler never looks at res.ok or res.status.  After steps 1 and 2 the field
\* the next URL is built from is undefined, so the next fetch rejects before
\* anything is sent (not an absolute URL) and the catch block answers 500;
\* after step 3 the body is reported as the result of a successful upload.
FetchErrorResponse(r) ==
  /\ up[r].pc = "fetch"
  /\ up' = [up EXCEPT ![r] =
              IF Len(up[r].calls) < Len(UploadSteps)
              THEN [@ EXCEPT !.pc = "done", !.failed = Append(@, Len(up[r].calls)),
                             !.status = 500, !.reply = "Upload failed"]
              ELSE [@ EXCEPT !.pc = "done", !.failed = Append(@, Len(up[r].calls)),
                             !.status = 200, !.reply = "Upload successful"]]
  /\ UNCHANGED <<variant, wh, store, co, tmpFiles>>

\* The pending fetch resolves with a body that is not JSON (a proxy's HTML
\* error page): res.json() rejects and the catch block answers 500.
FetchBadBody(r) ==
  /\ up[r].pc = "fetch"
  /\ up' = [up EXCEPT ![r] =
              [@ EXCEPT !.pc = "done", !.failed = Append(@, Len(up[r].calls)),
                        !.status = 500, !.reply = "Upload failed"]]
  /\ UNCHANGED <<variant, wh, store, co, tmpFiles>>

\* Status of the placeholder /upload of variants B and C when req.file is
\* undefined: C checks `!file`; B reads req.file.path, which throws a
\* TypeError caught by the handler's catch block.
PlaceholderNoFileStatus(v) == IF v = "B" THEN 500 ELSE 400

\* Variants B and C: no storage call at all.
UploadPlaceholder(r) ==
  /\ variant \in {"B", "C"}
  /\ up[r].pc = "idle"
  /\ \E f \in UploadFiles :
       /\ tmpFiles' = MulterStore(tmpFiles, r, f)
       /\ up' = [up EXCEPT ![r] =
                   IF f = Undefined
                   THEN [@ EXCEPT !.pc = "done", !.status = PlaceholderNoFileStatus(variant),
                                  !.reply = IF variant = "B" THEN "Upload failed"
                                            ELSE "No file uploaded"]
                   ELSE [@ EXCEPT !.pc = "done", !.file = f, !.status = 200,
                                  !.reply = "success"]]
  /\ UNCHANGED <<variant, wh, store, co>>

Init ==
  /\ variant \in Variants
  /\ wh = [r \in Reqs |-> WhIdle]
  /\ store = EmptyBag
  /\ co = [r \in Reqs |-> CoIdle]
  /\ up = [r \in Reqs |-> UpIdle]
  /\ tmpFiles = {}

NextWebhook ==
  \E r \in Reqs :
    \/ StripeWebhookRejected(r)
    \/ StripeWebhookCheckoutCompleted(r)
    \/ StripeWebhookDefault(r)
    \/ SupabaseUpsertOk(r)
    \/ SupabaseUpsertError(r)
    \/ SupabaseUpsertThrows(r)
    \/ StripeWebhookRespond(r)
    \/ WebhookLegacy(r)

SpecWebhook == Init /\ [][NextWebhook]_vars

NextCheckout ==
  \E r \in Reqs :
    \/ CreateCheckoutMissingPrice(r)
    \/ CreateCheckoutSend(r)
    \/ StripeSessionCreated(r)
    \/ StripeCreateThrows(r)
    \/ CreateCheckoutRespond(r)

SpecCheckout == Init /\ [][NextCheckout]_vars

NextUpload ==
  \E r \in Reqs :
    \/ UploadStart(r)
    \/ FetchRejects(r)
    \/ FetchOk(r)
    \/ FetchErrorResponse(r)
    \/ FetchBadBody(r)
    \/ UploadPlaceholder(r)

SpecUpload == Init /\ [][NextUpload]_vars

(***************************************************************************)
(* Webhook properties                                                      *)
(***************************************************************************)

\* The delivery a started webhook request is handling.
WhDelivery(r) == wh[r].body[1]

WhStarted(r) == wh[r].pc # "idle"

\* C1: a delivery whose signature does not verify is answered 400 in the same
\* step; the event is never assigned (no field of it is read), no upsert is
\* sent, and the request stays in that final state.
C1_InvalidSignatureRejected ==
  \A r \in Reqs :
    (WhStarted(r) /\ wh[r].sig # GoodSig) =>
      /\ wh[r].pc = "done"
      /\ wh[r].status = 400
      /\ wh[r].event = <<>>
      /\ wh[r].upserts = <<>>
      /\ wh[r].upsertResult = "none"

C1_Witness ==
  \E r \in Reqs :
    /\ wh[r].pc = "done"
    /\ wh[r].sig = "t=1,v1=forged"
    /\ WhDelivery(r).type = CheckoutCompleted
    /\ wh[r].status = 400

\* The row C2 expects for a session: metadata values, with null / "unknown"
\* standing in for an absent key.
C2_ExpectedRow(d) ==
  [user_id |-> IF d.metadata.user_id = Undefined THEN Null ELSE d.metadata.user_id,
   email |-> d.email,
   plan_type |-> IF d.metadata.plan_type = Undefined THEN "unknown"
                 ELSE d.metadata.plan_type,
   stripe_customer_id |-> d.customer,
   subscription_status |-> "active"]

\* C2: on POST /stripe/webhook a verified "checkout.session.completed" delivery
\* sends exactly one upsert, of the row built from the session's metadata and
\* customer with status "active"; nothing is answered while the upsert is
\* pending, and {received: true} is answered only once it has settled.
C2_CheckoutCompletedUpsertsOnce ==
  \A r \in Reqs :
    (variant = "A" /\ WhStarted(r) /\ wh[r].sig = GoodSig
       /\ WhDelivery(r).type = CheckoutCompleted) =>
      /\ wh[r].upserts = <<C2_ExpectedRow(WhDelivery(r))>>
      /\ (wh[r].pc = "awaitUpsert" => wh[r].status = 0 /\ wh[r].reply = "none")
      /\ (wh[r].reply = "received" => wh[r].upsertResult \in {"ok", "error"})

\* The spec's end-to-end scenario: u1 / single / cus_1 stored as active and
\* the delivery acknowledged.
C2_Witness ==
  \E r \in Reqs :
    /\ wh[r].pc = "done"
    /\ wh[r].reply = "received"
    /\ wh[r].upsertResult = "ok"
    /\ WhDelivery(r).metadata = [user_id |-> "u1", plan_type |-> "single"]
    /\ BagIn([user_id |-> "u1", email |-> Undefined, plan_type |-> "single",
              stripe_customer_id |-> "cus_1", subscription_status |-> "active"],
             store)

C3_NullKeyIssued ==
  \E r \in Reqs :
    /\ wh[r].pc = "done"
    /\ wh[r].upserts # <<>>
    /\ wh[r].upserts[1].user_id = Null

\* C4: a verified "checkout.session.completed" delivery whose upsert failed
\* (rejected promise or error result) is answered 500 and never
\* {received: true}; and a verified delivery is answered with an error status
\* only when its upsert failed.
C4_UpsertFailureIs500 ==
  \A r \in Reqs :
    (wh[r].pc = "done" /\ wh[r].sig = GoodSig) =>
      /\ (wh[r].upsertResult \in {"error", "throws"} =>
            wh[r].status = 500 /\ wh[r].reply # "received")
      /\ (wh[r].status >= 400 => wh[r].upsertResult \in {"error", "throws"})

CoBody(r) == co[r].body[1]

\* C6: a checkout request answered {url} got the session's non-empty URL, and
\* the create call carried as metadata the user_id and plan_type the request
\* submitted.
C6_MetadataCarriesUserAndPlan ==
  \A r \in Reqs :
    (co[r].pc = "done" /\ co[r].status = 200) =>
      /\ ~Falsy(co[r].url)
      /\ (CoBody(r).user_id # Undefined =>
            co[r].calls[1].metadata.user_id = CoBody(r).user_id)
      /\ (CoBody(r).plan_type # Undefined =>
            co[r].calls[1].metadata.plan_type = CoBody(r).plan_type)

\* The checkout half of C7: no price identifier, so 400 and no Stripe call.
C7_CheckoutMissingPriceIs400 ==
  \A r \in Reqs :
    (co[r].pc # "idle" /\ Falsy(CoBody(r).priceId)) =>
      co[r].pc = "done" /\ co[r].status = 400 /\ co[r].calls = <<>>

\* The plan a request selects, by its price and (when given) its plan_type.
SelectsOneTime(b) == b.priceId = OneTimePriceId /\ b.plan_type # "subscription"

SelectsRecurring(b) == b.priceId = RecurringPriceId /\ b.plan_type # "single"

\* C10: the create call is made in mode "payment" for the one-time plan and
\* in mode "subscription" for the recurring plan.
C10_ModeMatchesPlan ==
  \A r \in Reqs :
    co[r].calls # <<>> =>
      /\ (SelectsOneTime(CoBody(r)) => co[r].calls[1].mode = "payment")
      /\ (SelectsRecurring(CoBody(r)) => co[r].calls[1].mode = "subscription")

(***************************************************************************)
(* Upload properties                                                       *)
(***************************************************************************)

\* C7: a request without its required field is answered 400 and reaches no
\* provider: /create-checkout-session without a price, /upload without a file.
C7_MissingFieldIs400 ==
  /\ C7_CheckoutMissingPriceIs400
  /\ \A r \in Reqs :
       (up[r].pc = "done" /\ up[r].file = Undefined) =>
         up[r].status = 400 /\ up[r].calls = <<>>

\* C8: the storage calls are made in the order authorize, get upload URL,
\* upload file, each at most once; once a step has failed no later step is
\* made, the answer is 500, and it is never "Upload successful".
C8_UploadStepsShortCircuit ==
  \A r \in Reqs :
    /\ Len(up[r].calls) <= Len(UploadSteps)
    /\ \A i \in 1..Len(up[r].calls) : up[r].calls[i] = UploadSteps[i]
    /\ up[r].failed # <<>> =>
         /\ Len(up[r].calls) = up[r].failed[1]
         /\ up[r].pc = "done"
         /\ up[r].status = 500
         /\ up[r].reply # "Upload successful"

\* C9: once /upload has answered success after relaying the file, the temp
\* file of that request no longer exists.
C9_TempFileDeletedOnSuccess ==
  \A r \in Reqs :
    (up[r].reply = "Upload successful" /\ up[r].calls # <<>>) => r \notin tmpFiles

====
